---- MODULE Spec2Model ----
(***************************************************************************)
(* Product extraction and relevance filtering of the Amazon HTML parser    *)
(* (src/src/parser/html_parser.py), the API that runs it and serves its    *)
(* files (src/src/api/main.py), and the scraper that fetches the pages     *)
(* (src/src/scraper/amazon.py).                                            *)
(*                                                                         *)
(* Python strings are TLA+ strings; an Optional[str] is the empty tuple    *)
(* (None) or a one-element tuple holding the string.  A float is a pair    *)
(* <<n, d>> standing for n / 10^d, kept without trailing zero decimals.    *)
(***************************************************************************)
EXTENDS Integers, Sequences, FiniteSets, TLC

VARIABLES
    call,          \* the last call of one method: its arguments and its return
    document,      \* the listing fragments (cards) of the HTML file, in document order
    query,         \* the search query handed to parse_file
    filter_words,  \* _extract_products: the relevance filter words of the query
    idx,           \* _extract_products: number of cards the loop has consumed
    products,      \* _extract_products: the list of accepted records
    skipped,       \* _extract_products: the skipped counter
    clock,         \* datetime.now()
    processed,     \* the files written to data/processed, oldest first
    result,        \* the dict parse_file returned
    pc,            \* position of parse_file
    previous,      \* the lists _extract_products returned in the runs of main before this one
    request,       \* the GET /api/products request being served
    response,      \* the response to it
    search_term,   \* AmazonScraper.scrape: the term searched for
    max_pages,     \* AmazonScraper.max_pages
    browser,       \* the browser _launch_browser returned, and the calls of its close()
    page_num,      \* scrape: the page of the loop
    all_html,      \* scrape: the HTML of the pages collected
    total_products, \* scrape: the sum of their product counts
    scrape_page_calls, \* the page numbers _scrape_page was called with, in call order
    scrape_pc,     \* position of scrape
    scrape_ret,    \* what scrape returned or raised
    raw,           \* the files written to data/raw, oldest first
    calls          \* the run_pipeline calls of the API's worker threads

\* the state of the callers of parse_file
caller_vars == <<previous, request, response>>

\* the state of parse_file and _extract_products
parser_vars == <<document, query, filter_words, idx, products, skipped, result, pc>>

\* the state of AmazonScraper.scrape
scraper_vars == <<search_term, max_pages, browser, page_num, all_html, total_products,
                  scrape_page_calls, scrape_pc, scrape_ret>>

\* the state of concurrent run_pipeline calls
pipeline_vars == <<raw, calls>>

vars == <<call, document, query, filter_words, idx, products, skipped, clock,
          processed, result, pc, caller_vars, scraper_vars, pipeline_vars>>

parse_vars == <<document, query, filter_words, idx, products, skipped, clock,
                processed, result, pc, caller_vars, scraper_vars, pipeline_vars>>

(***************************************************************************)
(* Bounds of the model.                                                    *)
(***************************************************************************)
MaxQueryTokens == 2
FillSlack == 2
MaxCards == 3

(***************************************************************************)
(* Python str and list primitives.                                         *)
(***************************************************************************)
None == <<>>

Some(x) == <<x>>

LowerMap ==
    [A |-> "a", B |-> "b", C |-> "c", D |-> "d", E |-> "e", F |-> "f", G |-> "g",
     H |-> "h", I |-> "i", J |-> "j", K |-> "k", L |-> "l", M |-> "m", N |-> "n",
     O |-> "o", P |-> "p", Q |-> "q", R |-> "r", S |-> "s", T |-> "t", U |-> "u",
     V |-> "v", W |-> "w", X |-> "x", Y |-> "y", Z |-> "z"]

Char(s, i) == SubSeq(s, i, i)

LowerChar(c) == IF c \in DOMAIN LowerMap THEN LowerMap[c] ELSE c

RECURSIVE Lower(_)
Lower(s) ==
    IF Len(s) <= 1 THEN LowerChar(s)
    ELSE LET half == Len(s) \div 2
         IN  Lower(SubSeq(s, 1, half)) \o Lower(SubSeq(s, half + 1, Len(s)))

IsSpace(c) == c \in {" ", "\t", "\n"}

RECURSIVE LStrip(_)
LStrip(s) ==
    IF s # "" /\ IsSpace(Head(s)) THEN LStrip(Tail(s)) ELSE s

RECURSIVE RStrip(_)
RStrip(s) ==
    IF s # "" /\ IsSpace(Char(s, Len(s))) THEN RStrip(SubSeq(s, 1, Len(s) - 1)) ELSE s

Strip(s) == LStrip(RStrip(s))

RECURSIVE SplitFrom(_, _)
SplitFrom(s, cur) ==
    IF s = "" THEN (IF cur = "" THEN <<>> ELSE <<cur>>)
    ELSE IF IsSpace(Head(s))
         THEN (IF cur = "" THEN <<>> ELSE <<cur>>) \o SplitFrom(Tail(s), "")
         ELSE SplitFrom(Tail(s), cur \o Head(s))

Split(s) == SplitFrom(s, "")

RECURSIVE RStripChars(_, _)
RStripChars(s, c) ==
    IF s # "" /\ Char(s, Len(s)) = c THEN RStripChars(SubSeq(s, 1, Len(s) - 1), c) ELSE s

StartsWith(s, p) ==
    Len(p) <= Len(s) /\ SubSeq(s, 1, Len(p)) = p

OccursAt(s, w, i) ==
    i + Len(w) <= Len(s) /\ SubSeq(s, i + 1, i + Len(w)) = w

Contains(s, w) == \E i \in 0..Len(s) : OccursAt(s, w, i)

Find(s, w) ==
    IF Contains(s, w)
    THEN CHOOSE i \in 0..Len(s) :
            OccursAt(s, w, i) /\ \A j \in 0..(i - 1) : ~OccursAt(s, w, j)
    ELSE -1

(***************************************************************************)
(* AmazonParser._relevance_words                                           *)
(***************************************************************************)
_STOP_WORDS ==
    {"for", "with", "and", "the", "a", "an", "in", "on", "of",
     "to", "is", "by", "or", "be", "at", "as", "it", "compatible"}

MinWordLen == 2

PluralLen == 4

LoweredTokens(q) ==
    LET ws == Split(q)
    IN  [i \in 1..Len(ws) |-> Strip(Lower(ws[i]))]

IsFilterWord(w) == w \notin _STOP_WORDS /\ Len(w) > MinWordLen

Singular(w) == IF Len(w) > PluralLen THEN RStripChars(w, "s") ELSE w

_relevance_words(q) ==
    LET words == SelectSeq(LoweredTokens(q), IsFilterWord)
    IN  [i \in 1..Len(words) |-> Singular(words[i])]

(***************************************************************************)
(* AmazonParser._is_relevant                                               *)
(***************************************************************************)
_ACCESSORY_SIGNALS ==
    {"compatible with", "compatible for", "for apple", "for iphone",
     "for samsung", "case for", "cover for", "cable for",
     "charger for", "charging cable", "charging cord",
     "mfi certified", "mfi-certified",
     "protector", "tempered glass", "screen guard"}

MaxFirstPos == 60

\* any() where the source has all()
CoverageRule_any(t, words) == \E i \in 1..Len(words) : Contains(t, words[i])

\* Rule 1: all filter words must be present somewhere
CoverageRule(t, words) == \A i \in 1..Len(words) : Contains(t, words[i])

\* t.endswith(signal) where the source has t.startswith(signal)
AccessoryPrefixRule_endswith(t) ==
    \A signal \in _ACCESSORY_SIGNALS :
        ~(Len(signal) <= Len(t) /\ SubSeq(t, Len(t) - Len(signal) + 1, Len(t)) = signal)

\* Rule 2: reject titles that lead with accessory language
AccessoryPrefixRule(t) == \A signal \in _ACCESSORY_SIGNALS : ~StartsWith(t, signal)

\* first_pos >= 60 where the source has first_pos > 60
PositionRule_off_by_one(t, words) == ~(Find(t, words[1]) >= MaxFirstPos)

\* Rule 3: the first filter word should appear in the first 60 characters
PositionRule(t, words) == ~(Find(t, words[1]) > MaxFirstPos)

\* filter_words[0] raises IndexError when rules 1 and 2 let an empty list through
_is_relevant_raises(title, words) ==
    LET t == Lower(title)
    IN  CoverageRule(t, words) /\ AccessoryPrefixRule(t) /\ words = <<>>

_is_relevant(title, words) ==
    LET t == Lower(title)
    IN  CoverageRule(t, words) /\ AccessoryPrefixRule(t) /\ PositionRule(t, words)

(***************************************************************************)
(* A card is what the selectors of the field extractors find in one        *)
(* div[data-component-type=s-search-result]:                               *)
(*   h2_span  text of "h2 span.a-text-normal"            (None: no match)  *)
(*   h2_a     "h2 a": [aria_label, text, href]           (None: no match)  *)
(*   img      "img.s-image": [alt]                       (None: no match)  *)
(*   whole    text of ".a-price-whole"                   (None: no match)  *)
(*   offscreen text of ".a-offscreen"                    (None: no match)  *)
(*   star     the star-rating tag: [text, aria_label]    (None: no match)  *)
(* An attribute that the tag does not carry is None.                       *)
(***************************************************************************)
Get(attr, default) == IF attr = None THEN default ELSE attr[1]

MinTitleLen == 10

\* len(t) >= 10 where the source has len(t) > 10
LongEnough_ge(t) == Len(t) >= MinTitleLen

LongEnough(t) == Len(t) > MinTitleLen

_title(card) ==
    LET span_t == Strip(card.h2_span[1])
        label  == Strip(Get(card.h2_a[1].aria_label, ""))
        a_t    == Strip(card.h2_a[1].text)
        alt    == Strip(Get(card.img[1].alt, ""))
    IN  IF card.h2_span # None /\ LongEnough(span_t) THEN Some(span_t)
        ELSE IF card.h2_a # None /\ LongEnough(label) THEN Some(label)
        ELSE IF card.h2_a # None /\ LongEnough(a_t) THEN Some(a_t)
        ELSE IF card.img # None /\ LongEnough(alt) THEN Some(alt)
        ELSE None

(***************************************************************************)
(* Floats: <<n, d>> is n / 10^d with no trailing zero decimal; float(s) of *)
(* a string of digits and periods.                                         *)
(***************************************************************************)
Digits == "0123456789"

IsDigit(c) == \E i \in 1..Len(Digits) : Char(Digits, i) = c

DigitVal(c) == (CHOOSE i \in 1..Len(Digits) : Char(Digits, i) = c) - 1

RECURSIVE IntOf(_)
IntOf(s) ==
    IF s = "" THEN 0
    ELSE IntOf(SubSeq(s, 1, Len(s) - 1)) * 10 + DigitVal(Char(s, Len(s)))

RECURSIVE Normal(_)
Normal(f) ==
    IF f[2] > 0 /\ f[1] % 10 = 0 THEN Normal(<<f[1] \div 10, f[2] - 1>>) ELSE f

RECURSIVE Pow10(_)
Pow10(d) == IF d = 0 THEN 1 ELSE 10 * Pow10(d - 1)

Zero == <<0, 0>>

FloatLeq(f, g) == f[1] * Pow10(g[2]) <= g[1] * Pow10(f[2])

RECURSIVE Without(_, _)
Without(s, c) ==
    IF s = "" THEN ""
    ELSE IF Head(s) = c THEN Without(Tail(s), c)
    ELSE Head(s) \o Without(Tail(s), c)

\* float(s) raises ValueError unless s is digits with at most one period
IsFloatText(s) ==
    /\ \E i \in 1..Len(s) : IsDigit(Char(s, i))
    /\ Len(s) - Len(Without(s, ".")) <= 1

ParseFloat(s) ==
    LET dot == Find(s, ".")
        decimals == IF dot = -1 THEN 0 ELSE Len(s) - dot - 1
    IN  Normal(<<IntOf(Without(s, ".")), decimals>>)

(***************************************************************************)
(* AmazonParser._clean_price, _price, _rating, _url, _parse_card           *)
(***************************************************************************)
\* re.sub(r"[^\d.]", "", text)
RECURSIVE DigitsAndPeriods(_)
DigitsAndPeriods(text) ==
    IF text = "" THEN ""
    ELSE IF IsDigit(Head(text)) \/ Head(text) = "."
         THEN Head(text) \o DigitsAndPeriods(Tail(text))
         ELSE DigitsAndPeriods(Tail(text))

\* no except branch: whatever float() is given is read as a number
_clean_price_unchecked(text) == ParseFloat(DigitsAndPeriods(text))

_clean_price(text) ==
    LET stripped == DigitsAndPeriods(text)
    IN  IF IsFloatText(stripped) THEN ParseFloat(stripped) ELSE Zero

_price(card) ==
    IF card.whole # None THEN _clean_price(card.whole[1])
    ELSE IF card.offscreen # None THEN _clean_price(card.offscreen[1])
    ELSE Zero

\* end of the run of digits of text that starts at position i (i - 1 if none)
DigitRunEnd(text, i) ==
    CHOOSE j \in (i - 1)..Len(text) :
        /\ \A k \in i..j : IsDigit(Char(text, k))
        /\ (j = Len(text) \/ ~IsDigit(Char(text, j + 1)))

\* re.search(r"(\d+\.?\d*)", text): the match, or None
FirstNumber(text) ==
    IF \A i \in 1..Len(text) : ~IsDigit(Char(text, i)) THEN None
    ELSE LET start == CHOOSE i \in 1..Len(text) :
                          IsDigit(Char(text, i)) /\ \A k \in 1..(i - 1) : ~IsDigit(Char(text, k))
             whole_end == DigitRunEnd(text, start)
             match_end == IF whole_end < Len(text) /\ Char(text, whole_end + 1) = "."
                          THEN DigitRunEnd(text, whole_end + 2)
                          ELSE whole_end
         IN  Some(SubSeq(text, start, match_end))

_rating(card) ==
    IF card.star = None THEN Zero
    ELSE LET tag == card.star[1]
             text == IF tag.text # "" THEN tag.text ELSE Get(tag.aria_label, "")
             m == FirstNumber(text)
         IN  IF m # None THEN ParseFloat(m[1]) ELSE Zero

BaseUrl == "https://www.amazon.in"

_url(card) ==
    IF card.h2_a # None /\ Get(card.h2_a[1].href, "") # ""
    THEN LET href == card.h2_a[1].href[1]
         IN  IF StartsWith(href, "http") THEN href ELSE BaseUrl \o href
    ELSE ""

\* the price test dropped: a card without a price still yields a record
_parse_card_no_price_check(card, now) ==
    LET t == _title(card)
    IN  IF t = None \/ t = Some("") THEN None
        ELSE Some([title |-> t[1], price |-> _price(card), rating |-> _rating(card),
                   url |-> _url(card), platform |-> "Amazon", scraped_at |-> now])

_parse_card(card, now) ==
    LET t == _title(card)
        price == _price(card)
    IN  IF t = None \/ t = Some("") THEN None
        ELSE IF price = Zero THEN None
        ELSE Some([title |-> t[1], price |-> price, rating |-> _rating(card),
                   url |-> _url(card), platform |-> "Amazon", scraped_at |-> now])

(***************************************************************************)
(* DataFrame.drop_duplicates(subset=["title"]), main's output key, _save   *)
(***************************************************************************)
\* keep="last" where pandas' default is keep="first"
RECURSIVE drop_duplicates_keep_last(_)
drop_duplicates_keep_last(rows) ==
    IF rows = <<>> THEN <<>>
    ELSE IF \E j \in 2..Len(rows) : rows[j].title = rows[1].title
         THEN drop_duplicates_keep_last(Tail(rows))
         ELSE <<rows[1]>> \o drop_duplicates_keep_last(Tail(rows))

RECURSIVE drop_duplicates(_)
drop_duplicates(rows) ==
    IF rows = <<>> THEN <<>>
    ELSE LET front == SubSeq(rows, 1, Len(rows) - 1)
             last == rows[Len(rows)]
         IN  IF \E j \in 1..Len(front) : front[j].title = last.title
             THEN drop_duplicates(front)
             ELSE Append(drop_duplicates(front), last)

RECURSIVE SpacesToUnderscores(_)
SpacesToUnderscores(s) ==
    IF s = "" THEN ""
    ELSE (IF Head(s) = " " THEN "_" ELSE Head(s)) \o SpacesToUnderscores(Tail(s))

\* main: OUTPUT_KEY defaults to "products"; the search term names the file
output_key(term) ==
    IF term # "" THEN SpacesToUnderscores(Strip(Lower(term)))
    ELSE "products"

_save(df, key, now) == [key |-> key, timestamp |-> now, rows |-> df]

(***************************************************************************)
(* Inputs of the direct calls.                                             *)
(***************************************************************************)
QueryTokens ==
    {"sony", "headphones", "for", "iPhones", "wireless", "compatibles", "TV", "boss",
     "sssss"}

TokenSeqs == UNION {[1..k -> QueryTokens] : k \in 0..MaxQueryTokens}

RECURSIVE Join(_, _)
Join(ts, sep) ==
    IF ts = <<>> THEN ""
    ELSE IF Len(ts) = 1 THEN ts[1]
    ELSE ts[1] \o sep \o Join(Tail(ts), sep)

Queries ==
    {lead \o Join(ts, sep) : lead \in {"", " "}, ts \in TokenSeqs, sep \in {" ", " \t"}}

NoCall == [fn |-> "none", done |-> TRUE]

\* no scrape under way
ScraperIdle ==
    /\ search_term = ""
    /\ max_pages = 0
    /\ browser = [launched |-> FALSE, closed |-> 0]
    /\ page_num = 0
    /\ all_html = <<>>
    /\ total_products = 0
    /\ scrape_page_calls = <<>>
    /\ scrape_pc = "idle"
    /\ scrape_ret = None

\* no run_pipeline call under way, data/raw as _boot_clear leaves it
PipelinesIdle ==
    /\ raw = <<>>
    /\ calls = <<>>

ParseIdle ==
    /\ document = <<>>
    /\ query = ""
    /\ filter_words = <<>>
    /\ idx = 0
    /\ products = <<>>
    /\ skipped = 0
    /\ clock = 0
    /\ processed = <<>>
    /\ result = None
    /\ pc = "idle"
    /\ previous = None
    /\ request = None
    /\ response = None

(***************************************************************************)
(* Spec: main -> parse_file -> _extract_products over every document of    *)
(* Documents with every query of DocQueries.                               *)
(***************************************************************************)
Link(href) == Some([aria_label |-> None, text |-> "", href |-> Some(href)])

Stars(text, label) == Some([text |-> text, aria_label |-> label])

SonyTitle == "Sony WH-1000XM5 Wireless Headphones"

DocCards ==
    { \* the card of tests/test_parser.py
      [h2_span |-> Some(SonyTitle), h2_a |-> Link("/dp/B001"),
       img |-> Some([alt |-> Some(SonyTitle)]),
       whole |-> Some("29,990"), offscreen |-> Some("₹29,990"),
       star |-> Stars("4.5 out of 5 stars", Some("4.5 out of 5 stars"))],
      \* the same title again, from another seller
      [h2_span |-> Some(" " \o SonyTitle \o "\n"), h2_a |-> Link("https://www.amazon.in/dp/B002"),
       img |-> None,
       whole |-> None, offscreen |-> Some("₹27,490.50"),
       star |-> Stars("", Some("4.3 out of 5 stars"))],
      \* an accessory; its rating tag leads with the number of ratings
      [h2_span |-> None, h2_a |-> Link("/dp/B003"),
       img |-> Some([alt |-> Some("Case for Sony Headphones WH-1000XM5")]),
       whole |-> Some("499"), offscreen |-> None,
       star |-> Stars("12 star ratings", None)],
      \* a sponsored banner: no title long enough
      [h2_span |-> Some("Sponsored"), h2_a |-> None, img |-> None,
       whole |-> Some("1,299"), offscreen |-> None, star |-> None],
      \* a listing whose whole-price element is empty
      [h2_span |-> Some("Apple iPhone 15 (128 GB) - Black"), h2_a |-> Link("/dp/B004"),
       img |-> None,
       whole |-> Some(""), offscreen |-> Some("₹79,900"), star |-> None] }

Documents == UNION {[1..k -> DocCards] : k \in 0..MaxCards}

DocQueries == {"", "sony headphones", "for TV"}

Init ==
    /\ call = NoCall
    /\ document \in Documents
    /\ query \in DocQueries
    /\ filter_words = <<>>
    /\ idx = 0
    /\ products = <<>>
    /\ skipped = 0
    /\ clock = 0
    /\ processed = <<>>
    /\ result = None
    /\ pc = "start"
    /\ previous = None
    /\ request = None
    /\ response = None
    /\ ScraperIdle
    /\ PipelinesIdle

\* clock is the last reading of datetime.now().  scraped_at has microsecond
\* resolution and every card takes longer than that, so each card reads a later
\* time; the file timestamp of _save is cut to the second and may agree with
\* the reading before it.

\* products is not a fresh list: the records of the call before stay in it
Start_keeps_products ==
    /\ pc = "start"
    /\ filter_words' = IF query # "" THEN _relevance_words(query) ELSE <<>>
    /\ skipped' = 0
    /\ idx' = 0
    /\ pc' = "loop"
    /\ UNCHANGED <<call, document, query, products, clock, processed, result, caller_vars,
                 scraper_vars, pipeline_vars>>

\* parse_file up to the loop of _extract_products
Start ==
    /\ pc = "start"
    /\ filter_words' = IF query # "" THEN _relevance_words(query) ELSE <<>>
    /\ products' = <<>>
    /\ skipped' = 0
    /\ idx' = 0
    /\ pc' = "loop"
    /\ UNCHANGED <<call, document, query, clock, processed, result, caller_vars,
                 scraper_vars, pipeline_vars>>

\* a card that gives no record ends the loop: the batch is aborted
ParseCard_aborts ==
    /\ pc = "loop"
    /\ idx < Len(document)
    /\ LET card == document[idx + 1]
           now == clock + 1
           p == _parse_card(card, now)
       IN  /\ clock' = now
           /\ call' = [fn |-> "_parse_card", card |-> card, done |-> TRUE, ret |-> p,
                        checked |-> IF p # None /\ filter_words # <<>>
                                    THEN Some(filter_words) ELSE None]
           /\ IF p = None
              THEN idx' = Len(document) /\ UNCHANGED <<products, skipped>>
              ELSE /\ idx' = idx + 1
                   /\ IF filter_words # <<>> /\ ~_is_relevant(p[1].title, filter_words)
                      THEN skipped' = skipped + 1 /\ UNCHANGED products
                      ELSE products' = Append(products, p[1]) /\ UNCHANGED skipped
    /\ UNCHANGED <<document, query, filter_words, processed, result, pc, caller_vars,
                 scraper_vars, pipeline_vars>>

\* a card that gives no record is counted as skipped
ParseCard_counts_rejected ==
    /\ pc = "loop"
    /\ idx < Len(document)
    /\ LET card == document[idx + 1]
           now == clock + 1
           p == _parse_card(card, now)
       IN  /\ clock' = now
           /\ call' = [fn |-> "_parse_card", card |-> card, done |-> TRUE, ret |-> p,
                        checked |-> IF p # None /\ filter_words # <<>>
                                    THEN Some(filter_words) ELSE None]
           /\ IF p = None
              THEN skipped' = skipped + 1 /\ UNCHANGED products
              ELSE IF filter_words # <<>> /\ ~_is_relevant(p[1].title, filter_words)
              THEN skipped' = skipped + 1 /\ UNCHANGED products
              ELSE products' = Append(products, p[1]) /\ UNCHANGED skipped
    /\ idx' = idx + 1
    /\ UNCHANGED <<document, query, filter_words, processed, result, pc, caller_vars,
                 scraper_vars, pipeline_vars>>

\* the test of filter_words dropped: _is_relevant is called for every record,
\* and where it raises the except branch goes on to the next card
ParseCard_unguarded ==
    /\ pc = "loop"
    /\ idx < Len(document)
    /\ LET card == document[idx + 1]
           now == clock + 1
           p == _parse_card(card, now)
       IN  /\ clock' = now
           /\ call' = [fn |-> "_parse_card", card |-> card, done |-> TRUE, ret |-> p,
                        checked |-> IF p # None THEN Some(filter_words) ELSE None]
           /\ IF p = None
              THEN UNCHANGED <<products, skipped>>
              ELSE IF _is_relevant_raises(p[1].title, filter_words)
              THEN UNCHANGED <<products, skipped>>
              ELSE IF ~_is_relevant(p[1].title, filter_words)
              THEN skipped' = skipped + 1 /\ UNCHANGED products
              ELSE products' = Append(products, p[1]) /\ UNCHANGED skipped
    /\ idx' = idx + 1
    /\ UNCHANGED <<document, query, filter_words, processed, result, pc, caller_vars,
                 scraper_vars, pipeline_vars>>

\* one iteration of the loop over the cards.  call.checked is the list
\* _is_relevant was called with, None if it was not called.  No text of a card
\* makes _parse_card raise, nor _is_relevant when it has a filter word, so the
\* except branch of the loop, which goes on to the next card like the test of
\* p, is never entered.
ParseCard ==
    /\ pc = "loop"
    /\ idx < Len(document)
    /\ LET card == document[idx + 1]
           now == clock + 1
           p == _parse_card(card, now)
       IN  /\ clock' = now
           /\ call' = [fn |-> "_parse_card", card |-> card, done |-> TRUE, ret |-> p,
                        checked |-> IF p # None /\ filter_words # <<>>
                                    THEN Some(filter_words) ELSE None]
           /\ IF p = None
              THEN UNCHANGED <<products, skipped>>
              ELSE IF filter_words # <<>> /\ ~_is_relevant(p[1].title, filter_words)
              THEN skipped' = skipped + 1 /\ UNCHANGED products
              ELSE products' = Append(products, p[1]) /\ UNCHANGED skipped
    /\ idx' = idx + 1
    /\ UNCHANGED <<document, query, filter_words, processed, result, pc, caller_vars,
                 scraper_vars, pipeline_vars>>

\* the test of products dropped: an empty frame is saved as well
Finish_saves_empty ==
    /\ pc = "loop"
    /\ idx = Len(document)
    /\ \E now \in {clock, clock + 1} :
           LET df == drop_duplicates(products)
               file == _save(df, output_key(query), now)
           IN  /\ clock' = now
               /\ processed' = Append(processed, file)
               /\ result' = Some([success |-> TRUE,
                                  filename |-> <<file.key, file.timestamp>>,
                                  count |-> Len(df)])
    /\ pc' = "done"
    /\ UNCHANGED <<call, document, query, filter_words, idx, products, skipped, caller_vars,
                 scraper_vars, pipeline_vars>>

\* parse_file reporting the number of records before drop_duplicates
Finish_counts_products ==
    /\ pc = "loop"
    /\ idx = Len(document)
    /\ IF products = <<>>
       THEN /\ result' = Some([success |-> FALSE, error |-> "No products extracted"])
            /\ UNCHANGED <<clock, processed>>
       ELSE \E now \in {clock, clock + 1} :
            LET df == drop_duplicates(products)
                file == _save(df, output_key(query), now)
            IN  /\ clock' = now
                /\ processed' = Append(processed, file)
                /\ result' = Some([success |-> TRUE,
                                   filename |-> <<file.key, file.timestamp>>,
                                   count |-> Len(products)])
    /\ pc' = "done"
    /\ UNCHANGED <<call, document, query, filter_words, idx, products, skipped, caller_vars,
                 scraper_vars, pipeline_vars>>

\* the loop is over: parse_file returns, after drop_duplicates and _save if
\* there are products
Finish ==
    /\ pc = "loop"
    /\ idx = Len(document)
    /\ IF products = <<>>
       THEN /\ result' = Some([success |-> FALSE, error |-> "No products extracted"])
            /\ UNCHANGED <<clock, processed>>
       ELSE \E now \in {clock, clock + 1} :
            LET df == drop_duplicates(products)
                file == _save(df, output_key(query), now)
            IN  /\ clock' = now
                /\ processed' = Append(processed, file)
                /\ result' = Some([success |-> TRUE,
                                   filename |-> <<file.key, file.timestamp>>,
                                   count |-> Len(df)])
    /\ pc' = "done"
    /\ UNCHANGED <<call, document, query, filter_words, idx, products, skipped, caller_vars,
                 scraper_vars, pipeline_vars>>

Next == Start \/ ParseCard \/ Finish

Spec == Init /\ [][Next]_vars

(***************************************************************************)
(* SpecRerun: main run up to MaxRuns times on the same file with the same  *)
(* search term.                                                            *)
(***************************************************************************)
MaxRuns == 2

InitRerun == Init /\ Len(document) < MaxCards

\* main is run again: a new process, with the file and the search term of the
\* run before
Again ==
    /\ pc = "done"
    /\ request = None
    /\ Len(previous) + 1 < MaxRuns
    /\ previous' = Append(previous, products)
    /\ call' = NoCall
    /\ pc' = "start"
    /\ UNCHANGED <<document, query, filter_words, idx, products, skipped, clock, processed,
                   result, request, response, scraper_vars, pipeline_vars>>

NextRerun == Start \/ ParseCard \/ Finish \/ Again

SpecRerun == InitRerun /\ [][NextRerun]_vars

(***************************************************************************)
(* Properties of parse_file and _extract_products.                         *)
(***************************************************************************)
\* the rows of the file parse_file wrote
SavedRows == processed[Len(processed)].rows

\* for each fragment, the title of the record it gave and the relevance filter
\* let through, or None
Yield ==
    [i \in 1..Len(document) |->
        IF /\ _parse_card(document[i], 0) # None
           /\ filter_words # <<>> => _is_relevant(_title(document[i])[1], filter_words)
        THEN _title(document[i])
        ELSE None]

\* C1: the record set persisted by parse_file holds no two records with the same
\* title; for each title the record kept is the one produced by the first
\* fragment, in document order, that yielded the title; and the surviving
\* records keep their relative document order.
C1_FirstOccurrenceKept ==
    (pc = "done" /\ processed # <<>>) =>
        LET rows == processed[Len(processed)].rows
            yield == Yield
            \* the first fragment that yielded title t
            first_fragment(t) ==
                CHOOSE i \in 1..Len(document) :
                    yield[i] = Some(t) /\ \A j \in 1..(i - 1) : yield[j] # Some(t)
            \* the first record of products titled t
            first_product(t) ==
                CHOOSE i \in 1..Len(products) :
                    products[i].title = t /\ \A j \in 1..(i - 1) : products[j].title # t
        IN  /\ \A i \in 1..Len(products) :
                  \E k \in 1..Len(rows) : rows[k].title = products[i].title
            /\ \A k \in 1..Len(rows) :
                  /\ \E i \in 1..Len(products) : products[i].title = rows[k].title
                  /\ \E i \in 1..Len(document) : yield[i] = Some(rows[k].title)
                  /\ rows[k] = products[first_product(rows[k].title)]
                  /\ rows[k].price = _price(document[first_fragment(rows[k].title)])
                  /\ rows[k].url = _url(document[first_fragment(rows[k].title)])
            /\ \A k, l \in 1..Len(rows) :
                  k < l => first_product(rows[k].title) < first_product(rows[l].title)

C1_Witness ==
    /\ pc = "done"
    /\ processed # <<>>
    /\ Len(products) = 3
    /\ products[1].title = SonyTitle
    /\ products[2].title = "Case for Sony Headphones WH-1000XM5"
    /\ products[3].title = SonyTitle
    /\ products[3].price # products[1].price
    /\ Len(SavedRows) = 2
    /\ SavedRows[1] = products[1]
    /\ SavedRows[2] = products[2]
    /\ result = Some([success |-> TRUE,
                      filename |-> <<"products", clock>>, count |-> 2])

AllRecords ==
    {products[i] : i \in 1..Len(products)} \cup
    UNION {{processed[f].rows[k] : k \in 1..Len(processed[f].rows)} :
              f \in 1..Len(processed)}

\* C2: a fragment yields a record from _parse_card exactly when title extraction
\* returned a non-empty title and price extraction returned a non-zero price; so
\* every record of the output has a non-empty title and a price > 0.
C2_RecordIffTitleAndPrice ==
    /\ call.fn = "_parse_card" =>
          LET t == _title(call.card)
              price == _price(call.card)
          IN  /\ (call.ret # None) <=> (t # None /\ t # Some("") /\ price # Zero)
              /\ call.ret # None =>
                    (Some(call.ret[1].title) = t /\ call.ret[1].price = price)
    /\ \A r \in AllRecords : r.title # "" /\ r.price[1] > 0

C2_Witness ==
    /\ call.fn = "_parse_card"
    /\ _title(call.card) = Some("Apple iPhone 15 (128 GB) - Black")
    /\ _price(call.card) = Zero
    /\ call.ret = None
    /\ Len(products) = 2

MaxRating == 5

\* C3: every record that reaches the extraction output has 0 <= rating <= 5, also
\* when the text or label of the star-rating tag begins with a number above 5.
C3_RatingWithinRange ==
    \A r \in AllRecords :
        FloatLeq(Zero, r.rating) /\ FloatLeq(r.rating, <<MaxRating, 0>>)

\* a record less its scraped_at, the time of the call that made it
Fields(r) ==
    [title |-> r.title, price |-> r.price, rating |-> r.rating, url |-> r.url,
     platform |-> r.platform]

FieldsOf(rs) == [i \in 1..Len(rs) |-> Fields(rs[i])]

\* the validator of _parse_card rejects the card: no title, or no price
Fails(card) == _title(card) \in {None, Some("")} \/ _price(card) = Zero

\* the card passes the validator and the relevance filter turns its title down
Irrelevant(card, words) ==
    ~Fails(card) /\ words # <<>> /\ ~_is_relevant(_title(card)[1], words)

\* cards less the i-th
Absent(cards, i) == SubSeq(cards, 1, i - 1) \o SubSeq(cards, i + 1, Len(cards))

\* the records, less scraped_at, of a run of the loop over cards
RECURSIVE Extracted(_, _)
Extracted(cards, words) ==
    IF cards = <<>> THEN <<>>
    ELSE LET card == Head(cards)
             rest == Extracted(Tail(cards), words)
         IN  IF Fails(card) \/ Irrelevant(card, words) THEN rest
             ELSE <<Fields(_parse_card(card, 0)[1])>> \o rest

\* C11: a fragment the validator rejects never aborts the batch: the loop goes
\* through every fragment of the document, and the records it produces for the
\* other fragments are those of a run over the document without the rejected
\* fragment (scraped_at, the time of the call, set aside).
C11_FailuresIsolated ==
    pc = "done" =>
        /\ idx = Len(document)
        /\ \A i \in 1..Len(document) :
              Fails(document[i]) =>
                  FieldsOf(products) = Extracted(Absent(document, i), filter_words)

C11_Witness ==
    /\ pc = "done"
    /\ Len(document) = 3
    /\ ~Fails(document[1])
    /\ Fails(document[2])
    /\ document[2].h2_span = Some("Sponsored")
    /\ ~Fails(document[3])
    /\ Len(products) = 2
    /\ products[1].title = SonyTitle
    /\ products[2].title = "Case for Sony Headphones WH-1000XM5"

NoProducts == [success |-> FALSE, error |-> "No products extracted"]

\* C13: when the loop ends with no product, because the document has no fragment
\* or because none passed the validator and the relevance filter, parse_file
\* returns {success: False, error: "No products extracted"} and writes no file:
\* the processed directory is as it was.
C13_NoProductsNoFile ==
    [][(pc = "loop" /\ pc' = "done" /\ products = <<>>) =>
          (result' = Some(NoProducts) /\ processed' = processed)]_vars

C13_Witness ==
    /\ pc = "done"
    /\ Len(document) = 2
    /\ Fails(document[1])
    /\ Irrelevant(document[2], filter_words)
    /\ products = <<>>
    /\ result = Some(NoProducts)
    /\ processed = <<>>

\* C15 as claimed: a second extraction of the same document with the same query
\* gives records equal to those of the first in every field.
C15_IdenticalRecords ==
    (pc = "done" /\ previous # <<>>) => products = previous[Len(previous)]

\* C15: a second extraction of the same document with the same query gives the
\* same records in the same order in every field but scraped_at, which is the
\* time of the call and is later in the later run; nothing else is carried from
\* one call to the next.
C15_IdenticalButScrapedAt ==
    (pc = "done" /\ previous # <<>>) =>
        LET before == previous[Len(previous)]
        IN  /\ FieldsOf(products) = FieldsOf(before)
            /\ \A i \in 1..Len(products) : products[i].scraped_at > before[i].scraped_at

C15_Witness ==
    /\ pc = "done"
    /\ Len(previous) = 1
    /\ Len(products) = 2
    /\ Len(previous[1]) = 2
    /\ products[1].title = SonyTitle
    /\ products[2].title = SonyTitle
    /\ products[2].url # products[1].url
    /\ FieldsOf(products) = FieldsOf(previous[1])
    /\ products # previous[1]
    /\ Len(processed) = 2

\* C16: when the query is empty or gives no filter word (stop words and tokens
\* of at most 2 characters only), no relevance filter runs: every fragment that
\* passes the validator is kept, the skipped count is 0, and _is_relevant is
\* never called with an empty list of filter words.
C16_NoFilterWithoutWords ==
    /\ (pc \in {"loop", "done"} /\ (query = "" \/ _relevance_words(query) = <<>>)) =>
          /\ filter_words = <<>>
          /\ skipped = 0
          /\ Len(products) = Cardinality({i \in 1..idx : ~Fails(document[i])})
          /\ call.fn = "_parse_card" => call.checked = None
    /\ call.fn = "_parse_card" => call.checked # Some(<<>>)

C16_Witness ==
    /\ pc = "done"
    /\ query = "for TV"
    /\ filter_words = <<>>
    /\ Len(document) = 3
    /\ Fails(document[2])
    /\ Len(products) = 2
    /\ products[1].title = "Case for Sony Headphones WH-1000XM5"
    /\ products[2].title = SonyTitle
    /\ skipped = 0
    /\ call.fn = "_parse_card"
    /\ call.ret # None
    /\ call.checked = None

\* C29: on a successful parse_file call the returned count equals the number of
\* rows written to the result file, which equals the number of distinct titles
\* among the records kept by _extract_products; it is at most the number of
\* records kept before deduplication and at most the number of listing
\* fragments of the document.
C29_CountIsDistinctTitles ==
    (pc = "done" /\ result # None /\ result[1].success) =>
        /\ processed # <<>>
        /\ result[1].count = Len(SavedRows)
        /\ Len(SavedRows) = Cardinality({products[i].title : i \in 1..Len(products)})
        /\ result[1].count <= Len(products)
        /\ Len(products) <= Len(document)

C29_Witness ==
    /\ pc = "done"
    /\ result # None
    /\ result[1].success
    /\ Len(document) = 3
    /\ Len(products) = 2
    /\ products[1].title = products[2].title
    /\ result[1].count = 1
    /\ Len(SavedRows) = 1

(***************************************************************************)
(* SpecWords: _relevance_words called on every query of Queries.           *)
(***************************************************************************)
InitWords ==
    /\ call \in {[fn |-> "_relevance_words", query |-> q, done |-> FALSE, ret |-> <<>>] :
                    q \in Queries}
    /\ ParseIdle
    /\ ScraperIdle
    /\ PipelinesIdle

Call_relevance_words ==
    /\ call.fn = "_relevance_words"
    /\ ~call.done
    /\ call' = [call EXCEPT !.done = TRUE, !.ret = _relevance_words(call.query)]
    /\ UNCHANGED parse_vars

NextWords == Call_relevance_words

SpecWords == InitWords /\ [][NextWords]_vars

(***************************************************************************)
(* SpecRelevant: _is_relevant called on every title of Titles with every   *)
(* filter word list of FilterWordLists.                                    *)
(***************************************************************************)
RECURSIVE Fill(_)
Fill(n) ==
    IF n <= 1 THEN SubSeq("-", 1, n)
    ELSE LET half == n \div 2
         IN  Fill(half) \o Fill(n - half)

TitleHeads ==
    {"", "Apple ", "Case for ", "Compatible with ", "USB C Cable Compatible with "}

TitleTails ==
    {"Apple iPhone 15", "iPhone by Apple", "iPhone 15 Case Cover", "Galaxy S24 Ultra"}

TestTitles ==
    {"Apple iPhone 16 Pro 256GB",
     "USB C Cable Compatible with iPhone Apple MFi Certified",
     "Compatible with iPhone 15 Case Cover",
     "Fast Charging Cable USB C Braided Cord Works with Apple iPhone"}

FillSizes == {0} \cup ((MaxFirstPos - FillSlack)..(MaxFirstPos + FillSlack))

Titles ==
    TestTitles \cup
    {h \o Fill(n) \o t : h \in TitleHeads, n \in FillSizes, t \in TitleTails}

FilterWordLists ==
    {<<>>, <<"apple">>, <<"iphone">>, <<"apple", "iphone">>, <<"iphone", "apple">>,
     <<"galaxy">>}

InitRelevant ==
    /\ call \in {[fn |-> "_is_relevant", title |-> t, filter_words |-> w,
                  done |-> FALSE, raised |-> FALSE, ret |-> None] :
                    t \in Titles, w \in FilterWordLists}
    /\ ParseIdle
    /\ ScraperIdle
    /\ PipelinesIdle

Call_is_relevant ==
    /\ call.fn = "_is_relevant"
    /\ ~call.done
    /\ call' = IF _is_relevant_raises(call.title, call.filter_words)
               THEN [call EXCEPT !.done = TRUE, !.raised = TRUE]
               ELSE [call EXCEPT !.done = TRUE,
                                 !.ret = _is_relevant(call.title, call.filter_words)]
    /\ UNCHANGED parse_vars

NextRelevant == Call_is_relevant

SpecRelevant == InitRelevant /\ [][NextRelevant]_vars

(***************************************************************************)
(* Properties of _is_relevant, read off a completed call.                  *)
(***************************************************************************)
RelevantReturned ==
    call.fn = "_is_relevant" /\ call.done /\ ~call.raised

CallCoversAll ==
    LET t == Lower(call.title)
    IN  \A i \in 1..Len(call.filter_words) : Contains(t, call.filter_words[i])

CallLeadsWithSignal ==
    LET t == Lower(call.title)
    IN  \E signal \in _ACCESSORY_SIGNALS : StartsWith(t, signal)

CallFirstPos == Find(Lower(call.title), call.filter_words[1])

CallSignalBeforeKeyword ==
    LET t == Lower(call.title)
        first_pos == Find(t, call.filter_words[1])
    IN  \E signal \in _ACCESSORY_SIGNALS :
            Contains(t, signal) /\ Find(t, signal) < first_pos

\* C4: _is_relevant returns false whenever an accessory-signal phrase occurs in
\* the lowercased title before the first occurrence of the first filter word,
\* even when the title does not begin with the phrase and all filter words are
\* present (the two cable titles of tests/test_parser.py included).
C4_SignalBeforeKeywordRejected ==
    (/\ RelevantReturned
     /\ call.filter_words # <<>>
     /\ CallCoversAll
     /\ CallSignalBeforeKeyword)
        => call.ret = FALSE

\* C5: coverage rule: if some word of a non-empty filter_words is not a substring
\* of the lowercased title, _is_relevant returns false, whatever the other two
\* rules say.
C5_CoverageRule ==
    (/\ call.fn = "_is_relevant"
     /\ call.done
     /\ call.filter_words # <<>>
     /\ ~CallCoversAll)
        => (~call.raised /\ call.ret = FALSE)

C5_Witness ==
    /\ RelevantReturned
    /\ call.title = "Apple iPhone 16 Pro 256GB"
    /\ call.filter_words = <<"galaxy">>
    /\ ~CallCoversAll
    /\ ~CallLeadsWithSignal
    /\ call.ret = FALSE

\* C6: accessory-prefix rule: a title whose lowercased form starts with a phrase
\* of the accessory-signal list is rejected even when every filter word occurs
\* in it.
C6_AccessoryPrefixRule ==
    (/\ call.fn = "_is_relevant"
     /\ call.done
     /\ CallLeadsWithSignal)
        => (~call.raised /\ call.ret = FALSE)

C6_Witness ==
    /\ RelevantReturned
    /\ call.title = "Compatible with iPhone 15 Case Cover"
    /\ call.filter_words = <<"iphone">>
    /\ CallCoversAll
    /\ CallFirstPos <= MaxFirstPos
    /\ call.ret = FALSE

StripOneS(w) ==
    IF Len(w) > PluralLen /\ Char(w, Len(w)) = "s" THEN SubSeq(w, 1, Len(w) - 1) ELSE w

KeptTokens(q) == SelectSeq(LoweredTokens(q), IsFilterWord)

\* C8: _relevance_words removes exactly one trailing "s" from each kept token of
\* length > 4 and leaves shorter tokens unchanged: the result is the lowercased
\* kept tokens in query order, also for tokens ending in more than one "s".
C8_StripsExactlyOneS ==
    (call.fn = "_relevance_words" /\ call.done)
        => call.ret = [i \in 1..Len(KeptTokens(call.query)) |->
                            StripOneS(KeptTokens(call.query)[i])]

\* C9: the list returned by _relevance_words contains no member of the stop-word
\* set, for every query.
C9_NoStopWordReturned ==
    (call.fn = "_relevance_words" /\ call.done)
        => \A i \in 1..Len(call.ret) : call.ret[i] \notin _STOP_WORDS

\* C28: every word of the list returned by _relevance_words is non-empty and
\* longer than 2 characters, for every query, also for tokens made mostly or
\* only of the letter "s".
C28_WordsLongerThanTwo ==
    (call.fn = "_relevance_words" /\ call.done)
        => \A i \in 1..Len(call.ret) : call.ret[i] # "" /\ Len(call.ret[i]) > MinWordLen

(***************************************************************************)
(* SpecTitle: _title called on every card of TitleCards.                   *)
(***************************************************************************)
ShortTexts == {"Sponsored", "  Sony WH-10 \n"}

LongTexts(tag) == {tag \o "-Echo Dot 5", " " \o tag \o ": Sony WH-1000XM5 Wireless Headphones  "}

Texts(tag) == ShortTexts \cup LongTexts(tag)

Optional(S) == {None} \cup {Some(x) : x \in S}

TitleCards ==
    {[h2_span |-> sp, h2_a |-> a, img |-> im,
      whole |-> None, offscreen |-> None, star |-> None] :
        sp \in Optional(Texts("S")),
        a \in Optional([aria_label : Optional(Texts("L")), text : Texts("T"),
                        href : {None}]),
        im \in Optional([alt : Optional(Texts("A"))])}

InitTitle ==
    /\ call \in {[fn |-> "_title", card |-> c, done |-> FALSE, ret |-> None] :
                    c \in TitleCards}
    /\ ParseIdle
    /\ ScraperIdle
    /\ PipelinesIdle

Call_title ==
    /\ call.fn = "_title"
    /\ ~call.done
    /\ call' = [call EXCEPT !.done = TRUE, !.ret = _title(call.card)]
    /\ UNCHANGED parse_vars

NextTitle == Call_title

SpecTitle == InitTitle /\ [][NextTitle]_vars

(***************************************************************************)
(* Properties of _title, read off a completed call.                        *)
(***************************************************************************)
\* The four title candidates of a card in the order of the claim, trimmed; an
\* absent element or attribute gives no candidate.
TitleCandidates(c) ==
    << IF c.h2_span = None THEN None ELSE Some(Strip(c.h2_span[1])),
       IF c.h2_a = None \/ c.h2_a[1].aria_label = None
           THEN None ELSE Some(Strip(c.h2_a[1].aria_label[1])),
       IF c.h2_a = None THEN None ELSE Some(Strip(c.h2_a[1].text)),
       IF c.img = None \/ c.img[1].alt = None
           THEN None ELSE Some(Strip(c.img[1].alt[1])) >>

Qualifies(cand) == cand # None /\ Len(cand[1]) > MinTitleLen

\* C10: _title returns the first candidate, in the order heading span text,
\* heading link aria-label, heading link text, thumbnail alt text, whose trimmed
\* length exceeds 10 characters, and None when no candidate does.
C10_FirstQualifyingCandidate ==
    (call.fn = "_title" /\ call.done) =>
        LET cands == TitleCandidates(call.card)
        IN  IF \E k \in 1..4 : Qualifies(cands[k])
            THEN LET k == CHOOSE k \in 1..4 :
                              Qualifies(cands[k]) /\ \A j \in 1..(k - 1) : ~Qualifies(cands[j])
                 IN  call.ret = cands[k]
            ELSE call.ret = None

C10_Witness ==
    /\ call.fn = "_title"
    /\ call.done
    /\ call.card.h2_span = Some("  Sony WH-10 \n")
    /\ call.card.h2_a # None
    /\ call.card.h2_a[1].aria_label = None
    /\ call.card.h2_a[1].text = "Sponsored"
    /\ call.card.img = Some([alt |-> Some(" A: Sony WH-1000XM5 Wireless Headphones  ")])
    /\ call.ret = Some("A: Sony WH-1000XM5 Wireless Headphones")

(***************************************************************************)
(* The API (src/src/api/main.py, src/src/api/models.py).  get_products     *)
(* serves a request from the newest cached file of the query's key, or     *)
(* runs the pipeline: the cache is cleared, the scraper saves a page, the  *)
(* parser (main -> parse_file, the actions of Spec) writes a file.         *)
(***************************************************************************)
\* strip() after replace(): the spaces at the ends are underscores by then
query_to_key_strips_last(q) == Strip(SpacesToUnderscores(Lower(q)))

query_to_key(q) == SpacesToUnderscores(Strip(Lower(q)))

CACHE_TTL == 24

\* ticks of the clock in an hour: more than a run of the pipeline takes
Hour == 100

\* Path("data/processed").glob(f"{key}_*.parquet") against the file
\* {file.key}_{timestamp}.parquet; no key of ApiQueries reaches into the
\* timestamp or holds a glob character
GlobMatches(key, file) == StartsWith(file.key \o "_", key \o "_")

\* the newest, by mtime, of the files of processed numbered in S
Latest(S) ==
    CHOOSE i \in S : \A j \in S : processed[j].timestamp <= processed[i].timestamp

get_cached_file(q, now) ==
    LET matches == {i \in 1..Len(processed) : GlobMatches(query_to_key(q), processed[i])}
    IN  IF matches = {} THEN None
        ELSE IF now - processed[Latest(matches)].timestamp > CACHE_TTL * Hour THEN None
        ELSE Some(processed[Latest(matches)])

\* round(v, k)
Round(f, k) ==
    IF f[2] <= k THEN f
    ELSE LET unit == Pow10(f[2] - k)
             q == f[1] \div unit
             r == f[1] % unit
             up == 2 * r > unit \/ (2 * r = unit /\ q % 2 = 1)
         IN  Normal(<<IF up THEN q + 1 ELSE q, k>>)

\* the Field constraints and validators of Product accept the row
ProductValid(r) ==
    /\ Len(r.title) >= 1
    /\ FloatLeq(Zero, r.price)
    /\ FloatLeq(Zero, r.rating) /\ FloatLeq(r.rating, <<MaxRating, 0>>)

Product(r) ==
    [r EXCEPT !.price = Round(@, 2),
              !.rating = Round(@, 1),
              !.url = IF @ # "" /\ ~StartsWith(@, "http") THEN BaseUrl \o @ ELSE @]

HttpError(status, detail) == [status |-> status, detail |-> detail]

\* lines 113-116 of get_products: the rating filter, head(limit), the
\* envelope; a row Product rejects makes ProductResponse raise
Respond(req, rows, cached) ==
    LET rated == IF req.min_rating # Zero
                 THEN SelectSeq(rows, LAMBDA r : FloatLeq(req.min_rating, r.rating))
                 ELSE rows
        df == SubSeq(rated, 1, IF Len(rated) < req.limit THEN Len(rated) ELSE req.limit)
    IN  IF \A i \in 1..Len(df) : ProductValid(df[i])
        THEN [status |-> 200, query |-> req.query, count |-> Len(df),
              products |-> [i \in 1..Len(df) |-> Product(df[i])], cached |-> cached]
        ELSE HttpError(500, "Internal Server Error")

(***************************************************************************)
(* SpecApi: up to MaxRequests requests, one after the other.               *)
(***************************************************************************)
MaxRequests == 2

MaxPageCards == 2

\* the cards of the pages the scraper saves: the card of the tests and the
\* accessory of DocCards, and an older model whose rating tag leads with the
\* number of ratings
PageCards ==
    {c \in DocCards : c.whole \in {Some("29,990"), Some("499")}} \cup
    { [h2_span |-> Some("Sony WH-1000XM4 Wireless Headphones"), h2_a |-> Link("/dp/B006"),
       img |-> None,
       whole |-> Some("19,990"), offscreen |-> None,
       star |-> Stars("12 star ratings", None)] }

\* _scrape_page saves a page only if it counts a card on it; the cards of a
\* page are different listings
Pages ==
    {page \in UNION {[1..k -> PageCards] : k \in 1..MaxPageCards} :
        \A i, j \in 1..Len(page) : i # j => page[i] # page[j]}

\* how the scraper subprocess ends: a page saved, exit(1), or no end within
\* the timeout
ScraperOutcomes == {<<"saved", page>> : page \in Pages} \cup {<<"failed">>, <<"timeout">>}

ApiQueries == {"sony headphones", "Sony"}

\* the requests that pass the Query constraints of get_products
Requests ==
    [query : ApiQueries, limit : {1, 20}, min_rating : {Zero, <<44, 1>>}]

\* time between a request and the one before; get_cached_file reads the
\* clock only when it has a file to judge
Delays == {0, CACHE_TTL * Hour, CACHE_TTL * Hour + 1}

InitApi ==
    /\ call = NoCall
    /\ ParseIdle
    /\ ScraperIdle
    /\ PipelinesIdle

\* the memory of the parser subprocess, which is gone when it has ended
SubprocessGone ==
    /\ call' = NoCall
    /\ document' = <<>>
    /\ query' = ""
    /\ filter_words' = <<>>
    /\ idx' = 0
    /\ products' = <<>>
    /\ skipped' = 0
    /\ result' = None
    /\ pc' = "idle"

\* get_products whose run_pipeline does not call clear_all_cache
get_products_keeps_cache ==
    /\ pc = "idle"
    /\ request = None \/ response # None
    /\ (request # None => request[1].n < MaxRequests)
    /\ \E req \in Requests, delay \in (IF processed = <<>> THEN {0} ELSE Delays) :
          LET now == clock + delay
              cf == get_cached_file(req.query, now)
          IN  /\ clock' = now
              /\ request' = Some([query |-> req.query, limit |-> req.limit,
                                  min_rating |-> req.min_rating,
                                  n |-> IF request = None THEN 1 ELSE request[1].n + 1])
              /\ IF cf # None
                 THEN /\ response' = Some(Respond(req, cf[1].rows, TRUE))
                      /\ UNCHANGED <<document, query, filter_words, idx, products, skipped,
                                     processed, result, pc>>
                 ELSE \* run_pipeline: the scraper
                      /\ processed' = processed
                      /\ \E scraper \in ScraperOutcomes :
                            IF scraper[1] = "saved"
                            THEN /\ document' = scraper[2]
                                 /\ query' = req.query
                                 /\ pc' = "start"
                                 /\ response' = None
                                 /\ UNCHANGED <<filter_words, idx, products, skipped, result>>
                            ELSE /\ response' =
                                       IF scraper[1] = "timeout"
                                       THEN Some(HttpError(504, "Timed out"))
                                       ELSE Some(HttpError(500, "Scraper failed"))
                                 /\ UNCHANGED <<document, query, filter_words, idx, products,
                                                skipped, result, pc>>
    /\ UNCHANGED <<call, previous, scraper_vars, pipeline_vars>>

\* get_products up to its answer or, on a cache miss, up to the parser
\* subprocess of run_pipeline
get_products ==
    /\ pc = "idle"
    /\ request = None \/ response # None
    /\ (request # None => request[1].n < MaxRequests)
    /\ \E req \in Requests, delay \in (IF processed = <<>> THEN {0} ELSE Delays) :
          LET now == clock + delay
              cf == get_cached_file(req.query, now)
          IN  /\ clock' = now
              /\ request' = Some([query |-> req.query, limit |-> req.limit,
                                  min_rating |-> req.min_rating,
                                  n |-> IF request = None THEN 1 ELSE request[1].n + 1])
              /\ IF cf # None
                 THEN /\ response' = Some(Respond(req, cf[1].rows, TRUE))
                      /\ UNCHANGED <<document, query, filter_words, idx, products, skipped,
                                     processed, result, pc>>
                 ELSE \* run_pipeline: clear_all_cache, then the scraper
                      /\ processed' = <<>>
                      /\ \E scraper \in ScraperOutcomes :
                            IF scraper[1] = "saved"
                            THEN /\ document' = scraper[2]
                                 /\ query' = req.query
                                 /\ pc' = "start"
                                 /\ response' = None
                                 /\ UNCHANGED <<filter_words, idx, products, skipped, result>>
                            ELSE /\ response' =
                                       IF scraper[1] = "timeout"
                                       THEN Some(HttpError(504, "Timed out"))
                                       ELSE Some(HttpError(500, "Scraper failed"))
                                 /\ UNCHANGED <<document, query, filter_words, idx, products,
                                                skipped, result, pc>>
    /\ UNCHANGED <<call, previous, scraper_vars, pipeline_vars>>

\* the parser subprocess does not end within its timeout: subprocess.run
\* kills it, wherever it is, also after _save and before its exit
parser_timeout ==
    /\ pc \in {"start", "loop", "done"}
    /\ request # None /\ response = None
    /\ response' = Some(HttpError(504, "Timed out"))
    /\ SubprocessGone
    /\ UNCHANGED <<clock, processed, previous, request, scraper_vars, pipeline_vars>>

\* the parser subprocess ended: the rest of run_pipeline and of get_products
run_pipeline_returns ==
    /\ pc = "done"
    /\ request # None /\ response = None
    /\ LET req == request[1]
           key == query_to_key(req.query)
           keyed == {i \in 1..Len(processed) : GlobMatches(key, processed[i])}
           pq == IF keyed # {} THEN keyed ELSE 1..Len(processed)
       IN  response' =
              IF ~result[1].success THEN Some(HttpError(500, "Parser failed"))
              ELSE IF pq = {} THEN Some(HttpError(500, "No parquet file produced"))
              ELSE Some(Respond(req, processed[Latest(pq)].rows, FALSE))
    /\ SubprocessGone
    /\ UNCHANGED <<clock, processed, previous, request, scraper_vars, pipeline_vars>>

NextApi == get_products \/ Start \/ ParseCard \/ Finish \/ parser_timeout \/ run_pipeline_returns

SpecApi == InitApi /\ [][NextApi]_vars

\* C14: when the pipeline runs for a request and the extraction yields no
\* product, GET /api/products is answered with status 200 and count 0, not with
\* a 5xx error.
C14_NoProductsIsEmptyResult ==
    [][(pc = "done" /\ products = <<>> /\ request # None /\ response = None
            /\ response' # None) =>
          (response'[1].status = 200 /\ response'[1].count = 0)]_vars

\* C21: GET /api/products answers with cached = true exactly when, at request
\* time, a result file of the query's cache key exists whose newest one is no
\* older than CACHE_TTL hours, and then the pipeline is not run; otherwise the
\* pipeline is run and the answer has cached = false.
C21_CachedIffFreshFile ==
    [][/\ (request' # request) =>
            LET q == request'[1].query
                own == {i \in 1..Len(processed) : processed[i].key = query_to_key(q)}
                fresh == /\ own # {}
                         /\ clock' - processed[Latest(own)].timestamp <= CACHE_TTL * Hour
            IN  IF fresh
                THEN /\ response' # None
                     /\ response'[1].status = 200 => response'[1].cached
                     /\ processed' = processed
                     /\ pc' = "idle"
                ELSE /\ processed' = <<>>
                     /\ response' # None => response'[1].status # 200
       /\ (request' = request /\ response = None /\ response' # None
              /\ response'[1].status = 200) => ~response'[1].cached]_vars

\* the records of the answer to a request for the stored records rows
Kept(req, rows) == {i \in 1..Len(rows) : FloatLeq(req.min_rating, rows[i].rating)}

KeptIndex(req, rows, k) ==
    CHOOSE i \in Kept(req, rows) : Cardinality({j \in Kept(req, rows) : j <= i}) = k

\* C22: for every stored record sequence, limit and min_rating, GET
\* /api/products returns the first min(limit, n) records, in stored order, of
\* the n stored records with rating >= min_rating, and the count of the answer
\* is the number of products returned.
C22_FilterThenLimit ==
    (/\ response # None
     /\ response[1].status = 200 \/ response[1] = HttpError(500, "Internal Server Error")) =>
        /\ processed # <<>>
        /\ response[1].status = 200
        /\ LET req == request[1]
               rows == processed[Len(processed)].rows
               n == Cardinality(Kept(req, rows))
               returned == response[1].products
           IN  /\ Len(returned) = IF req.limit < n THEN req.limit ELSE n
               /\ \A k \in 1..Len(returned) :
                      returned[k] = Product(rows[KeptIndex(req, rows, k)])
               /\ response[1].count = Len(returned)

\* C25: an answer with cached = true for query q is served from a result file
\* written by a pipeline run for a query whose cache key is query_to_key(q),
\* never from a file of another key, also not of a key that starts with
\* query_to_key(q) and "_".
C25_ServedFromOwnKey ==
    (response # None /\ response[1].status = 200 /\ response[1].cached) =>
        \E i \in 1..Len(processed) :
            /\ processed[i].key = query_to_key(request[1].query)
            /\ response[1] = Respond(request[1], processed[i].rows, TRUE)

\* run_pipeline raised: the answer is one of its HTTP errors or the 504 of
\* get_products
PipelineFailed(resp) ==
    resp.status # 200 /\ resp # HttpError(500, "Internal Server Error")

\* the processed directory holds at most one result file, written by the
\* pipeline run of the request being served, and every cache miss clears it
OneFileOfLastRun ==
    /\ Len(processed') <= 1
    /\ (processed' # processed /\ processed' # <<>>) =>
           /\ request # None /\ response = None
           /\ processed'[1].key = query_to_key(request[1].query)
    /\ (request' # request /\ processed' # <<>>) =>
           get_cached_file(request'[1].query, clock') # None

\* a step that ends a pipeline run with a failure
RunFails ==
    /\ response' # None
    /\ PipelineFailed(response'[1])
    /\ request' # request \/ response = None

\* C27 as stated: every cache miss clears the whole cache before scraping, so
\* the processed directory holds at most one result file, the one of the most
\* recent pipeline run, and a failed pipeline run leaves no cached result for
\* any query.
C27_FailedRunLeavesNothing ==
    [][OneFileOfLastRun /\ (RunFails => processed' = <<>>)]_vars

\* C27: every cache miss clears the whole cache before scraping, so the
\* processed directory holds at most one result file, the one of the most
\* recent pipeline run; a failed pipeline run leaves no cached result for any
\* query, unless it fails by the timeout of the parser subprocess expiring
\* after the parser has written its result file.
C27_OneFileAtMost ==
    [][/\ OneFileOfLastRun
       /\ RunFails => \/ processed' = <<>>
                      \/ pc = "done" /\ response'[1] = HttpError(504, "Timed out")]_vars

C27_Witness ==
    /\ request # None
    /\ request[1].n = 2
    /\ clock > CACHE_TTL * Hour
    /\ response # None
    /\ response[1].status = 200
    /\ ~response[1].cached
    /\ Len(processed) = 1
    /\ processed[1].key = "sony"

(***************************************************************************)
(* SpecPrice: _clean_price called on every text of PriceTexts, _price on   *)
(* the price elements of PriceCards.                                       *)
(***************************************************************************)
PriceTexts ==
    {lead \o body \o trail :
        lead \in {"", "₹", "Rs. ", "-", " "},
        body \in {"", "29,990", "1,299.00", "499", "0", "0.00", "1.2.3", ".", "12.", ".5",
                  "N/A", "1 299,50"},
        trail \in {"", ".", "\n", " only"}}

ElementTexts == {"", "29,990", "29,990.", "N/A", "0", "₹79,900", "₹3,990.00"}

PriceCards == [whole : Optional(ElementTexts), offscreen : Optional(ElementTexts)]

InitPrice ==
    /\ call \in
          {[fn |-> "_clean_price", text |-> t, done |-> FALSE, raised |-> FALSE,
            ret |-> Zero] : t \in PriceTexts}
          \cup {[fn |-> "_price", card |-> c, done |-> FALSE, ret |-> Zero] : c \in PriceCards}
    /\ ParseIdle
    /\ ScraperIdle
    /\ PipelinesIdle

\* float() raising is caught inside _clean_price: the call always returns
Call_clean_price ==
    /\ call.fn = "_clean_price"
    /\ ~call.done
    /\ call' = [call EXCEPT !.done = TRUE, !.ret = _clean_price(call.text)]
    /\ UNCHANGED parse_vars

Call_price ==
    /\ call.fn = "_price"
    /\ ~call.done
    /\ call' = [call EXCEPT !.done = TRUE, !.ret = _price(call.card)]
    /\ UNCHANGED parse_vars

NextPrice == Call_clean_price \/ Call_price

SpecPrice == InitPrice /\ [][NextPrice]_vars

(***************************************************************************)
(* Properties of _clean_price and _price, read off a completed call.       *)
(***************************************************************************)
\* the number the digits of text at the positions of S spell, read in order
RECURSIVE DigitsValue(_, _)
DigitsValue(text, S) ==
    IF S = {} THEN 0
    ELSE LET last == CHOOSE i \in S : \A j \in S : j <= i
         IN  DigitsValue(text, S \ {last}) * 10 + DigitVal(Char(text, last))

\* C17: _clean_price drops every character that is not a digit or a period and
\* reads what is left as a decimal ("₹29,990" gives 29990.0, "1,299.00" gives
\* 1299.0); it returns 0.0, and does not raise, when nothing is left, when no
\* digit is left, or when what is left is no decimal (two periods).
C17_CleanPrice ==
    (call.fn = "_clean_price" /\ call.done) =>
        LET text == call.text
            kept == {i \in 1..Len(text) : IsDigit(Char(text, i)) \/ Char(text, i) = "."}
            periods == {i \in kept : Char(text, i) = "."}
            digits == kept \ periods
            decimals == Cardinality({i \in digits : \E k \in periods : k < i})
        IN  /\ ~call.raised
            /\ IF digits = {} \/ Cardinality(periods) > 1
               THEN call.ret = Zero
               ELSE call.ret = Normal(<<DigitsValue(text, digits), decimals>>)
            /\ text = "₹29,990" => call.ret = <<29990, 0>>
            /\ text = "1,299.00" => call.ret = <<1299, 0>>

C17_Witness ==
    /\ call.fn = "_clean_price"
    /\ call.done
    /\ call.text = "₹1,299.00 only"
    /\ call.ret = <<1299, 0>>

\* C18: when the whole-number price element is absent or gives no price, _price
\* falls back to the offscreen price element and returns the price that one
\* gives; it returns 0 only when neither element gives a non-zero price.
C18_FallsBackToOffscreen ==
    (call.fn = "_price" /\ call.done) =>
        LET price_of(element) == IF element = None THEN Zero ELSE _clean_price(element[1])
            whole == price_of(call.card.whole)
        IN  call.ret = IF whole # Zero THEN whole ELSE price_of(call.card.offscreen)

(***************************************************************************)
(* SpecUrl: _url called on the heading link of every card of UrlCards.     *)
(***************************************************************************)
Hrefs ==
    {head \o path :
        head \in {"", "/", "//www.amazon.in/", "http://www.amazon.in/",
                  "https://www.amazon.in/", "HTTPS://www.amazon.in/", "http-", "javascript:",
                  " /"},
        path \in {"", "dp/B001", "gp/slredirect/picassoRedirect.html?url=%2Fdp%2FB002",
                  "s?k=sony+headphones", "cables/dp/B003?ref=http", "void(0)"}}

UrlCards ==
    {[h2_a |-> None]}
    \cup {[h2_a |-> Some([aria_label |-> None, text |-> "", href |-> None])]}
    \cup {[h2_a |-> Link(href)] : href \in Hrefs}

InitUrl ==
    /\ call \in {[fn |-> "_url", card |-> c, done |-> FALSE, ret |-> ""] : c \in UrlCards}
    /\ ParseIdle
    /\ ScraperIdle
    /\ PipelinesIdle

Call_url ==
    /\ call.fn = "_url"
    /\ ~call.done
    /\ call' = [call EXCEPT !.done = TRUE, !.ret = _url(call.card)]
    /\ UNCHANGED parse_vars

NextUrl == Call_url

SpecUrl == InitUrl /\ [][NextUrl]_vars

(***************************************************************************)
(* Properties of _url, read off a completed call.                          *)
(***************************************************************************)
Letters == "abcdefghijklmnopqrstuvwxyzABCDEFGHIJKLMNOPQRSTUVWXYZ"

SchemeChars == Letters \o Digits \o "+-."

\* s starts with a URI scheme: a letter, then letters, digits, "+", "-", ".",
\* up to a colon
HasScheme(s) ==
    \E colon \in 2..Len(s) :
        /\ Char(s, colon) = ":"
        /\ Contains(Letters, Char(s, 1))
        /\ \A i \in 2..(colon - 1) : Contains(SchemeChars, Char(s, i))

\* C19: the url of a record is the empty string when the card has no heading
\* link or the link no href, and an absolute URL otherwise: an href that does not
\* start with a scheme is returned with https://www.amazon.in in front of it,
\* and an href that starts with http is returned as it is.
C19_UrlEmptyOrAbsolute ==
    (call.fn = "_url" /\ call.done) =>
        LET a == call.card.h2_a
            href == IF a = None \/ a[1].href = None THEN "" ELSE a[1].href[1]
        IN  /\ call.ret = "" <=> href = ""
            /\ call.ret # "" => HasScheme(call.ret)
            /\ (href # "" /\ ~HasScheme(href)) => call.ret = "https://www.amazon.in" \o href
            /\ StartsWith(href, "http") => call.ret = href

(***************************************************************************)
(* SpecKey: query_to_key called on every query of Queries.                 *)
(***************************************************************************)
InitKey ==
    /\ call \in {[fn |-> "query_to_key", q |-> q, done |-> FALSE, ret |-> ""] : q \in Queries}
    /\ ParseIdle
    /\ ScraperIdle
    /\ PipelinesIdle

Call_query_to_key ==
    /\ call.fn = "query_to_key"
    /\ ~call.done
    /\ call' = [call EXCEPT !.done = TRUE, !.ret = query_to_key(call.q)]
    /\ UNCHANGED parse_vars

NextKey == Call_query_to_key

SpecKey == InitKey /\ [][NextKey]_vars

(***************************************************************************)
(* Properties of query_to_key, read off a completed call.                  *)
(***************************************************************************)
UpperChar(c) ==
    IF \E u \in DOMAIN LowerMap : LowerMap[u] = c
    THEN CHOOSE u \in DOMAIN LowerMap : LowerMap[u] = c
    ELSE c

RECURSIVE Upper(_)
Upper(s) == IF s = "" THEN "" ELSE UpperChar(Head(s)) \o Upper(Tail(s))

\* q with the letter case changed
Recased(q) ==
    {q, Upper(q), Lower(q)} \cup
    {SubSeq(q, 1, i) \o Upper(SubSeq(q, i + 1, Len(q))) : i \in 1..Len(q)}

\* queries that differ from q in letter case and in the whitespace at their ends
Variants(q) ==
    {lead \o r \o trail : lead \in {"", " ", "\t "}, r \in Recased(q), trail \in {"", " ", " \n"}}

\* C20: query_to_key gives the same key for queries that differ only in letter
\* case or in the whitespace at their ends, the key holds no space, and
\* query_to_key of a key is that key.
C20_KeyNormalised ==
    (call.fn = "query_to_key" /\ call.done) =>
        /\ \A v \in Variants(call.q) : query_to_key(v) = call.ret
        /\ \A i \in 1..Len(call.ret) : Char(call.ret, i) # " "
        /\ query_to_key(call.ret) = call.ret

C20_Witness ==
    /\ call.fn = "query_to_key"
    /\ call.done
    /\ call.q = " sony \tiPhones"
    /\ call.ret = "sony_\tiphones"

(***************************************************************************)
(* SpecScrape: AmazonScraper.scrape (src/src/scraper/amazon.py) for every  *)
(* max_pages up to PagesBound, with every way the browser can answer.      *)
(***************************************************************************)
PagesBound == 3

MaxPageProducts == 2

SearchTerms == {"headphones", "sony headphones"}

\* what the browser does with a results page: goto or wait_for_selector
\* throws, or the page shows a number of result cards
PageLoads == {<<"throws">>} \cup {<<"cards", n>> : n \in 0..MaxPageProducts}

RECURSIVE SpacesToPlus(_)
SpacesToPlus(s) ==
    IF s = "" THEN ""
    ELSE (IF Head(s) = " " THEN "+" ELSE Head(s)) \o SpacesToPlus(Tail(s))

\* page.content() of the results page k=clean_term&page=num showing n cards
Html(term, num, n) == [k |-> SpacesToPlus(term), page |-> num, cards |-> n]

\* the (html, product_count) _scrape_page returns
_scrape_page(term, num, load) ==
    IF load[1] = "throws" THEN <<None, 0>>
    ELSE IF load[2] = 0 THEN <<None, 0>>
    ELSE <<Some(Html(term, num, load[2])), load[2]>>

_save_html(term, html_pages, now) ==
    [term |-> SpacesToUnderscores(term), timestamp |-> now, html |-> html_pages]

Returns(value) == [kind |-> "return", value |-> value]

Raises(error) == [kind |-> "raise", value |-> error]

\* str(e) of the exception a failing browser throws
BrowserError == "browser crash"

InitScrape ==
    /\ call = NoCall
    /\ ParseIdle
    /\ PipelinesIdle
    /\ search_term \in SearchTerms
    /\ max_pages \in 0..PagesBound
    /\ browser = [launched |-> FALSE, closed |-> 0]
    /\ page_num = 0
    /\ all_html = <<>>
    /\ total_products = 0
    /\ scrape_page_calls = <<>>
    /\ scrape_pc = "enter"
    /\ scrape_ret = None

\* an exception outside the try statement leaves scrape
Propagates ==
    /\ scrape_pc' = "raised"
    /\ scrape_ret' = Some(Raises(BrowserError))

\* with sync_playwright() as playwright
sync_playwright ==
    /\ scrape_pc = "enter"
    /\ \/ scrape_pc' = "launch" /\ UNCHANGED scrape_ret
       \/ Propagates
    /\ UNCHANGED <<search_term, max_pages, browser, page_num, all_html, total_products,
                   scrape_page_calls>>
    /\ UNCHANGED <<call, parser_vars, caller_vars, clock, processed, pipeline_vars>>

\* browser = self._launch_browser(playwright)
_launch_browser ==
    /\ scrape_pc = "launch"
    /\ \/ /\ browser' = [browser EXCEPT !.launched = TRUE]
          /\ scrape_pc' = "new_page"
          /\ UNCHANGED scrape_ret
       \/ Propagates /\ UNCHANGED browser
    /\ UNCHANGED <<search_term, max_pages, page_num, all_html, total_products,
                   scrape_page_calls>>
    /\ UNCHANGED <<call, parser_vars, caller_vars, clock, processed, pipeline_vars>>

\* page = browser.new_page()
new_page ==
    /\ scrape_pc = "new_page"
    /\ \/ scrape_pc' = "configure" /\ UNCHANGED scrape_ret
       \/ Propagates
    /\ UNCHANGED <<search_term, max_pages, browser, page_num, all_html, total_products,
                   scrape_page_calls>>
    /\ UNCHANGED <<call, parser_vars, caller_vars, clock, processed, pipeline_vars>>

\* self._configure_page(page), the first statement of the try; its
\* exception is caught, and the finally clause closes the browser
_configure_page ==
    /\ scrape_pc = "configure"
    /\ \/ /\ all_html' = <<>>
          /\ total_products' = 0
          /\ scrape_pc' = "loop"
          /\ UNCHANGED <<browser, scrape_ret>>
       \/ /\ scrape_ret' = Some(Returns([success |-> FALSE, error |-> BrowserError]))
          /\ browser' = [browser EXCEPT !.closed = @ + 1]
          /\ scrape_pc' = "returned"
          /\ UNCHANGED <<all_html, total_products>>
    /\ UNCHANGED <<search_term, max_pages, page_num, scrape_page_calls>>
    /\ UNCHANGED <<call, parser_vars, caller_vars, clock, processed, pipeline_vars>>

\* the loop goes on after a page without results
scrape_page_goes_on ==
    /\ scrape_pc = "loop"
    /\ page_num < max_pages
    /\ \E load \in PageLoads :
          LET num == page_num + 1
              r == _scrape_page(search_term, num, load)
          IN  /\ page_num' = num
              /\ scrape_page_calls' =
                     Append(scrape_page_calls, [page_num |-> num, threw |-> load[1] = "throws"])
              /\ IF r[1] # None /\ r[2] > 0
                 THEN /\ all_html' = Append(all_html, r[1][1])
                      /\ total_products' = total_products + r[2]
                 ELSE UNCHANGED <<all_html, total_products>>
              /\ UNCHANGED scrape_pc
    /\ UNCHANGED <<search_term, max_pages, browser, scrape_ret>>
    /\ UNCHANGED <<call, parser_vars, caller_vars, clock, processed, pipeline_vars>>

\* one turn of the loop over range(1, max_pages + 1): _scrape_page, then
\* collect the page or break
scrape_page ==
    /\ scrape_pc = "loop"
    /\ page_num < max_pages
    /\ \E load \in PageLoads :
          LET num == page_num + 1
              r == _scrape_page(search_term, num, load)
          IN  /\ page_num' = num
              /\ scrape_page_calls' =
                     Append(scrape_page_calls, [page_num |-> num, threw |-> load[1] = "throws"])
              /\ IF r[1] # None /\ r[2] > 0
                 THEN /\ all_html' = Append(all_html, r[1][1])
                      /\ total_products' = total_products + r[2]
                      /\ UNCHANGED scrape_pc
                 ELSE /\ scrape_pc' = "after_loop"
                      /\ UNCHANGED <<all_html, total_products>>
    /\ UNCHANGED <<search_term, max_pages, browser, scrape_ret>>
    /\ UNCHANGED <<call, parser_vars, caller_vars, clock, processed, pipeline_vars>>

\* after the loop: _save_html and the success dict, or "No data collected";
\* the finally clause closes the browser
scrape_returns ==
    /\ scrape_pc = "after_loop" \/ (scrape_pc = "loop" /\ page_num >= max_pages)
    /\ IF all_html # <<>>
       THEN LET file == _save_html(search_term, all_html, clock + 1)
            IN  /\ clock' = clock + 1
                /\ raw' = Append(raw, file)
                /\ scrape_ret' =
                       Some(Returns([success |-> TRUE,
                                     filename |-> <<"amazon", file.term, file.timestamp>>,
                                     products |-> total_products,
                                     pages |-> Len(all_html)]))
       ELSE /\ scrape_ret' = Some(Returns([success |-> FALSE, error |-> "No data collected"]))
            /\ UNCHANGED <<clock, raw>>
    /\ browser' = [browser EXCEPT !.closed = @ + 1]
    /\ scrape_pc' = "returned"
    /\ UNCHANGED <<search_term, max_pages, page_num, all_html, total_products,
                   scrape_page_calls>>
    /\ UNCHANGED <<call, parser_vars, caller_vars, processed, calls>>

NextScrape ==
    sync_playwright \/ _launch_browser \/ new_page \/ _configure_page \/ scrape_page
        \/ scrape_returns

SpecScrape == InitScrape /\ [][NextScrape]_vars

(***************************************************************************)
(* Properties of scrape.                                                   *)
(***************************************************************************)
Finished == scrape_pc \in {"returned", "raised"}

RECURSIVE SumCards(_)
SumCards(pages) == IF pages = <<>> THEN 0 ELSE Head(pages).cards + SumCards(Tail(pages))

\* pages 1, 2, ... are requested in increasing order, at most max_pages of
\* them, and none after the first page that gave no HTML or no product
PagesInOrder ==
    /\ \A i \in 1..Len(scrape_page_calls) : scrape_page_calls[i].page_num = i
    /\ Len(scrape_page_calls) <= max_pages
    /\ \A i \in 1..Len(all_html) : all_html[i].page = i /\ all_html[i].cards > 0
    /\ Len(all_html) <= Len(scrape_page_calls)
    /\ Len(scrape_page_calls) <= Len(all_html) + 1
    /\ (scrape_pc = "returned" /\ Len(scrape_page_calls) = Len(all_html)) =>
           (scrape_page_calls = <<>> \/ Len(scrape_page_calls) = max_pages)

NoData == Returns([success |-> FALSE, error |-> "No data collected"])

Collected ==
    /\ scrape_ret[1].kind = "return"
    /\ scrape_ret[1].value.success
    /\ scrape_ret[1].value.pages = Len(all_html)
    /\ scrape_ret[1].value.products = SumCards(all_html)

FirstPageYieldsNothing == scrape_page_calls # <<>> /\ all_html = <<>>

ThrewOutsideLoop ==
    \/ scrape_ret[1].kind = "raise"
    \/ scrape_ret[1] = Returns([success |-> FALSE, error |-> BrowserError])

C24_ThrowGivesFailureDict ==
    (/\ Finished
     /\ ThrewOutsideLoop \/ \E i \in 1..Len(scrape_page_calls) : scrape_page_calls[i].threw) =>
        /\ scrape_ret[1].kind = "return"
        /\ ~scrape_ret[1].value.success
        /\ "error" \in DOMAIN scrape_ret[1].value

\* C30: once the browser has been launched it is closed exactly once on every
\* path out of scrape: success, "No data collected", an exception while
\* configuring or scraping, an exception while opening the page.
C30_LaunchedBrowserClosedOnce ==
    /\ browser.closed <= 1
    /\ (Finished /\ browser.launched) => browser.closed = 1

(***************************************************************************)
(* SpecPipelines: two requests for different queries miss the cache at the *)
(* same time, and the worker threads of the API run their run_pipeline     *)
(* calls (src/src/api/main.py) side by side on data/raw and                *)
(* data/processed.                                                         *)
(***************************************************************************)
Threads == {1, 2}

PipelineQueries == {"sony headphones", "wireless headphones"}

\* the results page the scraper finds for a query; the HTML of a page is
\* here the cards it shows
PageOf(q) ==
    IF q = "sony headphones"
    THEN <<CHOOSE c \in DocCards : c.whole = Some("29,990")>>
    ELSE <<[h2_span |-> Some("Sony WH-CH520 Wireless Headphones"), h2_a |-> Link("/dp/B005"),
            img |-> None,
            whole |-> Some("4,490"), offscreen |-> None,
            star |-> Stars("4.1 out of 5 stars", None)]>>

\* _extract_products with one reading of the clock for all cards
RECURSIVE _extract_products(_, _, _)
_extract_products(cards, words, now) ==
    IF cards = <<>> THEN <<>>
    ELSE LET front == _extract_products(SubSeq(cards, 1, Len(cards) - 1), words, now)
             p == _parse_card(cards[Len(cards)], now)
         IN  IF p = None THEN front
             ELSE IF words # <<>> /\ ~_is_relevant(p[1].title, words) THEN front
             ELSE Append(front, p[1])

\* the name of a file of data/raw or data/processed
RawName(f) == <<f.term, f.timestamp>>

ProcessedName(f) == <<f.key, f.timestamp>>

\* sorted(..., key=mtime)[-1] of the files of dir numbered in S
Newest(dir, S) == CHOOSE i \in S : \A j \in S : dir[j].timestamp <= dir[i].timestamp

NewCall(q) ==
    [query |-> q, pc |-> "clear", latest_html |-> None, document |-> None, pq |-> None,
     response |-> None]

InitPipelines ==
    /\ call = NoCall
    /\ ParseIdle
    /\ ScraperIdle
    /\ raw = <<>>
    /\ calls \in {<<NewCall(q1), NewCall(q2)>> : q1, q2 \in PipelineQueries}
    /\ calls[1].query # calls[2].query

\* the call of thread t ends with an HTTP error
Fails500(t, detail) ==
    calls' = [calls EXCEPT ![t].pc = "done", ![t].response = Some(HttpError(500, detail))]

Fails504(t) ==
    calls' = [calls EXCEPT ![t].pc = "done", ![t].response = Some(HttpError(504, "Timed out"))]

\* clear_all_cache(): every .html of data/raw and .parquet of data/processed
clear_all_cache ==
    \E t \in Threads :
        /\ calls[t].pc = "clear"
        /\ raw' = <<>>
        /\ processed' = <<>>
        /\ calls' = [calls EXCEPT ![t].pc = "scrape"]
        /\ UNCHANGED <<call, parser_vars, caller_vars, clock, scraper_vars>>

\* the scraper subprocess: it saves the page of its SEARCH_TERM, exits with 1,
\* or does not end within the timeout
scraper_subprocess ==
    \E t \in Threads :
        /\ calls[t].pc = "scrape"
        /\ \/ /\ clock' = clock + 1
              /\ raw' = Append(raw, _save_html(calls[t].query, PageOf(calls[t].query),
                                               clock + 1))
              /\ calls' = [calls EXCEPT ![t].pc = "list_html"]
           \/ Fails500(t, "Scraper failed") /\ UNCHANGED <<clock, raw>>
           \/ Fails504(t) /\ UNCHANGED <<clock, raw>>
        /\ UNCHANGED <<call, parser_vars, caller_vars, processed, scraper_vars>>

\* html_files sorted by mtime, latest_html = html_files[-1]
latest_html ==
    \E t \in Threads :
        /\ calls[t].pc = "list_html"
        /\ IF raw = <<>> THEN Fails500(t, "No HTML file produced")
           ELSE calls' = [calls EXCEPT
                             ![t].pc = "parse_read",
                             ![t].latest_html = Some(RawName(raw[Newest(raw, 1..Len(raw))]))]
        /\ UNCHANGED <<call, parser_vars, caller_vars, clock, processed, raw, scraper_vars>>

\* the parser subprocess reads INPUT_FILE; if the file is gone read_text
\* raises and the subprocess exits with 1
parser_reads ==
    \E t \in Threads :
        /\ calls[t].pc = "parse_read"
        /\ LET found == {i \in 1..Len(raw) : RawName(raw[i]) = calls[t].latest_html[1]}
           IN  \/ IF found = {} THEN Fails500(t, "Parser failed")
                  ELSE calls' = [calls EXCEPT
                                    ![t].pc = "parse_write",
                                    ![t].document = Some(raw[CHOOSE i \in found : TRUE].html)]
               \/ Fails504(t)
        /\ UNCHANGED <<call, parser_vars, caller_vars, clock, processed, raw, scraper_vars>>

\* the parser subprocess extracts with SEARCH_TERM and saves under OUTPUT_KEY,
\* or exits with 1 when nothing is extracted
parser_writes ==
    \E t \in Threads :
        /\ calls[t].pc = "parse_write"
        /\ LET q == calls[t].query
               found == _extract_products(calls[t].document[1], _relevance_words(q), clock + 1)
           IN  IF found = <<>>
               THEN Fails500(t, "Parser failed") /\ UNCHANGED <<clock, processed>>
               ELSE /\ clock' = clock + 1
                    /\ processed' = Append(processed,
                                           _save(drop_duplicates(found), query_to_key(q),
                                                 clock + 1))
                    /\ calls' = [calls EXCEPT ![t].pc = "glob"]
        /\ UNCHANGED <<call, parser_vars, caller_vars, raw, scraper_vars>>

\* pq: the files of the key, or else every .parquet; run_pipeline returns
\* pq[-1]
run_pipeline_globs ==
    \E t \in Threads :
        /\ calls[t].pc = "glob"
        /\ LET keyed == {i \in 1..Len(processed) :
                            GlobMatches(query_to_key(calls[t].query), processed[i])}
               pq == IF keyed # {} THEN keyed ELSE 1..Len(processed)
           IN  IF pq = {} THEN Fails500(t, "No parquet file produced")
               ELSE calls' = [calls EXCEPT
                                 ![t].pc = "read",
                                 ![t].pq = Some(ProcessedName(processed[Newest(processed, pq)]))]
        /\ UNCHANGED <<call, parser_vars, caller_vars, clock, processed, raw, scraper_vars>>

\* get_products: pd.read_parquet(pq) and the response; read_parquet raises if
\* the file is gone
read_parquet ==
    \E t \in Threads :
        /\ calls[t].pc = "read"
        /\ LET found == {i \in 1..Len(processed) : ProcessedName(processed[i]) = calls[t].pq[1]}
               req == [query |-> calls[t].query, limit |-> 20, min_rating |-> Zero]
           IN  IF found = {} THEN Fails500(t, "Internal Server Error")
               ELSE calls' = [calls EXCEPT
                                 ![t].pc = "done",
                                 ![t].response =
                                     Some(Respond(req, processed[CHOOSE i \in found : TRUE].rows,
                                                  FALSE))]
        /\ UNCHANGED <<call, parser_vars, caller_vars, clock, processed, raw, scraper_vars>>

NextPipelines ==
    clear_all_cache \/ scraper_subprocess \/ latest_html \/ parser_reads \/ parser_writes
        \/ run_pipeline_globs \/ read_parquet

SpecPipelines == InitPipelines /\ [][NextPipelines]_vars

\* the records a pipeline run for query q extracts from the HTML scraped for q
OwnTitles(q) ==
    LET rows == _extract_products(PageOf(q), _relevance_words(q), 0)
    IN  {rows[i].title : i \in 1..Len(rows)}

\* C26: under any interleaving of two concurrent run_pipeline calls for
\* different queries, the result file returned for a query was parsed from HTML
\* scraped for that query, and neither call's raw HTML or result file is deleted
\* by the other call's clear_all_cache between its scrape, parse and read steps.
C26_CallsDoNotInterfere ==
    \A t \in Threads :
        LET c == calls[t]
        IN  /\ (c.response # None /\ c.response[1].status = 200) =>
                   {c.response[1].products[i].title :
                        i \in 1..Len(c.response[1].products)} = OwnTitles(c.query)
            /\ c.pc = "list_html" =>
                   \E i \in 1..Len(raw) : raw[i].term = SpacesToUnderscores(c.query)
            /\ c.pc = "parse_read" =>
                   \E i \in 1..Len(raw) : RawName(raw[i]) = c.latest_html[1]
            /\ c.pc = "glob" =>
                   \E i \in 1..Len(processed) : processed[i].key = query_to_key(c.query)
            /\ c.pc = "read" =>
                   \E i \in 1..Len(processed) : ProcessedName(processed[i]) = c.pq[1]

====
